---- MODULE Spec2Model ----
(***************************************************************************)
(* Model of the conversational core of LILY-VIRTUAL-2.0:                   *)
(*   src/models/ai_engine.py   AIEngine.build_prompt / generate_response   *)
(*   src/main.py               the /api/chat handler                       *)
(* Texts are sequences of string tokens; an f-string is the concatenation  *)
(* of its literal parts and its formatted values.                          *)
(***************************************************************************)
EXTENDS Integers, Sequences, FiniteSets, TLC

\* ------------------------------------------------------------------ bounds
\* number of generate_response calls made in one behaviour
MaxCalls == 2
\* number of dialogue turns user "u1" may already own when the engine starts
PriorTurns == 6

\* --------------------------------------------------------- program constants
\* max_messages of get_conversation_context in build_prompt
MaxContext == 6
\* n_results of rag_engine.query in build_prompt
RagResults == 2
\* the status generate_response accepts
StatusOK == 200
\* statuses the model endpoint may answer with
Statuses == {200, 500}

\* the size budget of a prompt, in tokens: the persona segment with the
\* summaries and the utterance always fit in it
ContextBudget == 20
\* length of the completions enumerated for the sanitizing step
MaxRaw == 4
\* number of listener threads created in one behaviour
MaxThreads == 2

Calls == 1..MaxCalls
Threads == 1..MaxThreads
\* the callers of the wake-word operations: two are enough for every overlap
WakeCallers == {"a", "b"}
\* the requests served at once: two are enough for every pairwise race
Workers == {"w1", "w2"}
Users == {"u1", "u2"}
Utterances == {"triste", "feliz"}

\* EmotionType values used by the engine
NEUTRAL == "neutral"
PREOCUPADA == "preocupada"
FELIZ == "feliz"
EmotionType == {NEUTRAL, PREOCUPADA, FELIZ}

\* tokens of a raw completion
ThinkOpen == "<think>"
ThinkClose == "</think>"
Whitespace == {" ", "\n"}

\* the completions the model endpoint may answer with
RawReplies ==
    { <<" ", ThinkOpen, "ignore", "\n", "me", ThinkClose, "Hello!", ThinkClose, "\n">> }

\* what requests.post may produce: a timeout, a connection error, or a response
\* with a status and a JSON body that holds message.content or does not
Responses ==
    { [kind |-> k, status |-> 0, wellformed |-> FALSE, content |-> <<>>] :
          k \in {"timeout", "connection"} }
    \cup { [kind |-> "response", status |-> st, wellformed |-> FALSE, content |-> <<>>] :
          st \in Statuses }
    \cup { [kind |-> "response", status |-> StatusOK, wellformed |-> TRUE, content |-> raw] :
          raw \in RawReplies }

NoResponse == [kind |-> "none", status |-> 0, wellformed |-> FALSE, content |-> <<>>]

VARIABLES
    rag_engine,        \* TRUE when AIEngine.rag_engine is not None
    base_system_prompt,\* the persona text, <<>> when system_prompt.txt is missing
    current_state,     \* EmotionalIntelligence.current_state, the process-wide slot
    conversations,     \* MemorySystem: user -> sequence of dialogue turns
    emotional_states,  \* MemorySystem: user -> sequence of emotional records
    rag_index,         \* RAGEngine: sequence of stored conversation turns
    rag_queries,       \* number of rag_engine.query invocations
    tts_engine,        \* TRUE while TTSEngine.text_to_speech works
    call,              \* call id -> the frame of one /api/chat request
    env,               \* which optional components can be set up on this host
    engine,            \* "new" before AIEngine.__init__, then "constructed"
    wake_word_enabled, \* AIEngine.wake_word_enabled
    wake_word_engine,  \* AIEngine.wake_word_engine: "unset", "none" or "engine"
    is_listening,      \* WakeWordEngine.is_listening
    listening_thread,  \* WakeWordEngine.listening_thread: a thread id, 0 for None
    thread,            \* thread id -> the frame of one listener thread
    caller             \* caller -> the frame of one wake-word call in progress

\* the state of the wake-word side of the engine
wake_vars == <<env, engine, wake_word_enabled, wake_word_engine, is_listening,
               listening_thread, thread, caller>>

\* the state of the conversational side that construction does not set
chat_vars == <<current_state, conversations, emotional_states, rag_index,
               rag_queries, tts_engine, call>>

vars == <<rag_engine, base_system_prompt, current_state, conversations,
          emotional_states, rag_index, rag_queries, tts_engine, call,
          env, engine, wake_word_enabled, wake_word_engine, is_listening,
          listening_thread, thread, caller>>

\* ---------------------------------------------------------------- helpers
Last(s, n) == IF Len(s) <= n THEN s ELSE SubSeq(s, Len(s) - n + 1, Len(s))

RECURSIVE Flatten(_)
Flatten(ss) == IF ss = <<>> THEN <<>> ELSE Head(ss) \o Flatten(Tail(ss))

RECURSIVE Reverse(_)
Reverse(s) == IF s = <<>> THEN <<>> ELSE Reverse(Tail(s)) \o <<Head(s)>>

\* a variant whose match runs to the last closing marker
RECURSIVE RemoveThinkGreedy(_)
RemoveThinkGreedy(s) ==
    IF s = <<>> THEN <<>>
    ELSE IF Head(s) = ThinkOpen
              /\ \E i \in 2..Len(s) : s[i] = ThinkClose
         THEN LET i == CHOOSE k \in 2..Len(s) :
                          /\ s[k] = ThinkClose
                          /\ \A j \in (k + 1)..Len(s) : s[j] # ThinkClose
              IN  RemoveThinkGreedy(SubSeq(s, i + 1, Len(s)))
         ELSE <<Head(s)>> \o RemoveThinkGreedy(Tail(s))

\* re.sub(r'<think>.*?</think>', '', text, flags=re.DOTALL)
RECURSIVE RemoveThink(_)
RemoveThink(s) ==
    IF s = <<>> THEN <<>>
    ELSE IF Head(s) = ThinkOpen
              /\ \E i \in 2..Len(s) : s[i] = ThinkClose
         THEN LET i == CHOOSE k \in 2..Len(s) :
                          /\ s[k] = ThinkClose
                          /\ \A j \in 2..(k - 1) : s[j] # ThinkClose
              IN  RemoveThink(SubSeq(s, i + 1, Len(s)))
         ELSE <<Head(s)>> \o RemoveThink(Tail(s))

\* str.strip()
RECURSIVE LStrip(_)
LStrip(s) == IF s # <<>> /\ Head(s) \in Whitespace THEN LStrip(Tail(s)) ELSE s

Strip(s) == Reverse(LStrip(Reverse(LStrip(s))))

Sanitize(raw) == Strip(RemoveThink(raw))

\* ------------------------------------------------- collaborators (no source)
\* EmotionalIntelligence.update_emotional_state: the record inferred from the
\* utterance; without a cue the emotion is neutral and the previous intensity
\* is carried over, decayed.
Classify(msg, prev) ==
    IF msg = "triste"
    THEN [emotion |-> PREOCUPADA, intensity |-> 4, reason |-> "distress"]
    ELSE IF msg = "feliz"
    THEN [emotion |-> FELIZ, intensity |-> 4, reason |-> "affection"]
    ELSE [emotion |-> NEUTRAL, intensity |-> prev.intensity \div 2,
          reason |-> "no strong signal detected"]

InitialState == [emotion |-> NEUTRAL, intensity |-> 1, reason |-> "initial"]
NoState == [emotion |-> "none", intensity |-> 0, reason |-> "none"]

\* EmotionalIntelligence.get_emotional_modifier: a directive derived from the slot
get_emotional_modifier(st) == <<"tone", st.emotion, ToString(st.intensity)>>

\* MemorySystem.get_conversation_context: the most recent turns, oldest first
get_conversation_context(hist, max_messages) == Last(hist, max_messages)

\* MemorySystem.get_conversation_summary / get_emotional_summary
get_conversation_summary(hist) ==
    IF hist = <<>> THEN <<"empty history">> ELSE <<"turns", ToString(Len(hist))>>

get_emotional_summary(tl) ==
    IF tl = <<>> THEN <<"no emotions">> ELSE <<"last emotion", tl[Len(tl)].emotion>>

\* RAGEngine.query: up to n_results stored snippets, most recent first
rag_query(index, n_results) ==
    LET recent == Reverse(Last(index, n_results))
    IN  [i \in 1..Len(recent) |-> recent[i].user \o recent[i].assistant]

\* ------------------------------------------------------------ build_prompt
\* "INFORMACION RELEVANTE RECUPERADA:\n" + "\n".join(rag_docs) + "\n"
RagContext(rag_docs) ==
    IF rag_docs = <<>> THEN <<>>
    ELSE <<"INFORMACION RELEVANTE RECUPERADA:">> \o Flatten(rag_docs)

\* the f-string that builds system_prompt
SystemPrompt(persona, modifier, st, conv_summary, emo_summary, rag_context) ==
    persona
    \o <<"CONTEXTO EMOCIONAL ACTUAL:">> \o modifier
    \o <<"Tu emocion actual:", st.emotion, ToString(st.intensity)>>
    \o <<"Razon:", st.reason>>
    \o <<"MEMORIA DE CONVERSACION:">> \o conv_summary \o emo_summary
    \o rag_context

\* a variant that appends the new utterance before the stored context
MessagesUtteranceFirst(f) ==
    <<[role |-> "system",
       content |-> SystemPrompt(base_system_prompt, f.modifier, f.state,
                                f.conv_summary, f.emo_summary, f.rag_context)]>>
    \o <<[role |-> "user", content |-> <<f.msg>>]>>
    \o [i \in 1..Len(f.context) |->
            [role |-> f.context[i].role, content |-> f.context[i].content]]

\* the message list returned by build_prompt
Messages(f) ==
    <<[role |-> "system",
       content |-> SystemPrompt(base_system_prompt, f.modifier, f.state,
                                f.conv_summary, f.emo_summary, f.rag_context)]>>
    \o [i \in 1..Len(f.context) |->
            [role |-> f.context[i].role, content |-> f.context[i].content]]
    \o <<[role |-> "user", content |-> <<f.msg>>]>>

\* ------------------------------------------------------- generate_response
TimeoutText == <<"Lo siento Mijin, estoy tardando mucho en pensar... Podrias repetir eso?">>
GenericText(e) == <<"Ay Mijin, algo salio mal: ", e>>
StatusText(code) == <<"Error al conectar con el modelo: ", ToString(code)>>

\* a variant that lacks the "except Exception" clause: the exception leaves
\* generate_response
ExceptTimeoutOnly(e) ==
    IF e = "Timeout"
    THEN [text |-> TimeoutText, emotion |-> PREOCUPADA, raised |-> FALSE]
    ELSE [text |-> <<>>, emotion |-> "none", raised |-> TRUE]

\* a variant that lacks the "except requests.exceptions.Timeout" clause
ExceptGenericOnly(e) ==
    [text |-> GenericText(e), emotion |-> PREOCUPADA, raised |-> FALSE]

\* the except clauses of generate_response: what exception e turns into
ExceptClauses(e) ==
    IF e = "Timeout"
    THEN [text |-> TimeoutText, emotion |-> PREOCUPADA, raised |-> FALSE]
    ELSE [text |-> GenericText(e), emotion |-> PREOCUPADA, raised |-> FALSE]

\* a variant that stores the turn before the model is asked
StepAfterPersistFirst(pc) ==
    CASE pc = "idle" -> "add_state"
      [] pc = "add_state" -> "modifier"
      [] pc = "modifier" -> "context"
      [] pc = "context" -> "rag_query"
      [] pc = "rag_query" -> "add_user"
      [] pc = "add_user" -> "post"
      [] pc = "post" -> "add_asst"
      [] pc = "add_asst" -> "rag_add"
      [] pc = "rag_add" -> "return"
      [] pc = "return" -> "finished"

\* a variant that stores the assistant turn before the user turn
StepAfterAssistantFirst(pc) ==
    CASE pc = "idle" -> "add_state"
      [] pc = "add_state" -> "modifier"
      [] pc = "modifier" -> "context"
      [] pc = "context" -> "rag_query"
      [] pc = "rag_query" -> "post"
      [] pc = "post" -> "add_asst"
      [] pc = "add_asst" -> "add_user"
      [] pc = "add_user" -> "rag_add"
      [] pc = "rag_add" -> "return"
      [] pc = "return" -> "finished"

\* a variant that stores the emotional record once the model has replied
StepAfterStateLate(pc) ==
    CASE pc = "idle" -> "modifier"
      [] pc = "modifier" -> "context"
      [] pc = "context" -> "rag_query"
      [] pc = "rag_query" -> "post"
      [] pc = "post" -> "add_state"
      [] pc = "add_state" -> "add_user"
      [] pc = "add_user" -> "add_asst"
      [] pc = "add_asst" -> "rag_add"
      [] pc = "rag_add" -> "return"
      [] pc = "return" -> "finished"

\* a variant that does not store the utterance
StepAfterNoUserTurn(pc) ==
    CASE pc = "idle" -> "add_state"
      [] pc = "add_state" -> "modifier"
      [] pc = "modifier" -> "context"
      [] pc = "context" -> "rag_query"
      [] pc = "rag_query" -> "post"
      [] pc = "post" -> "add_asst"
      [] pc = "add_user" -> "add_asst"
      [] pc = "add_asst" -> "rag_add"
      [] pc = "rag_add" -> "return"
      [] pc = "return" -> "finished"

\* the order of the statements of build_prompt and generate_response that touch
\* shared state: the statement that follows the one at pc
StepAfter(pc) ==
    CASE pc = "idle" -> "add_state"
      [] pc = "add_state" -> "modifier"
      [] pc = "modifier" -> "context"
      [] pc = "context" -> "rag_query"
      [] pc = "rag_query" -> "post"
      [] pc = "post" -> "add_user"
      [] pc = "add_user" -> "add_asst"
      [] pc = "add_asst" -> "rag_add"
      [] pc = "rag_add" -> "return"
      [] pc = "return" -> "finished"

\* chat() after generate_response: text_to_speech inside its own try, then the
\* ChatResponse; an exception out of generate_response becomes HTTP 500.
\* The locals of build_prompt are gone.
ChatReturn(f) ==
    LET g == [f EXCEPT !.pc = "finished", !.modifier = <<>>, !.context = <<>>,
                       !.conv_summary = <<>>, !.emo_summary = <<>>,
                       !.rag_context = <<>>]
    IN  IF f.raised
        THEN [g EXCEPT !.http = 500]
        ELSE [g EXCEPT !.http = 200, !.audio = IF tts_engine THEN "url" ELSE "none"]

\* the frame after exception e was raised inside the try block
Raise(f, e) ==
    LET r == ExceptClauses(e)
    IN  ChatReturn([f EXCEPT !.exc = e, !.text = r.text,
                             !.emotion = r.emotion, !.raised = r.raised])

\* the frame after "return text, emotion"
Return(f, text, emotion) ==
    ChatReturn([f EXCEPT !.text = text, !.emotion = emotion])

\* a variant without the test
RagEnabledAlways == TRUE

\* "if self.rag_engine:"
RagEnabled == rag_engine

\* "if response.status_code == 200:"
StatusAccepted(status) == status = StatusOK

UserTurn(c, f) ==
    [role |-> "user", content |-> <<f.msg>>, emotion |-> "none", call |-> c]

AssistantTurn(c, f) ==
    [role |-> "assistant", content |-> f.reply,
     emotion |-> current_state.emotion, call |-> c]

\* a variant that indexes the raw completion
RagEntryRaw(c, f) ==
    [user |-> <<f.msg>>, assistant |-> f.response.content, call |-> c]

\* the pair handed to add_conversation_turn
RagEntry(c, f) == [user |-> <<f.msg>>, assistant |-> f.reply, call |-> c]

\* a Thread object that does not exist yet
UnbornThread == [pc |-> "unborn", text |-> <<>>]

\* a caller that is in no wake-word call; op is the call it made last
IdleCaller == [pc |-> "idle", op |-> "none", target |-> 0, result |-> "none"]

IdleFrame ==
    [pc |-> "idle", user |-> "none", msg |-> "none", state |-> NoState,
     modifier |-> <<>>, context |-> <<>>, conv_summary |-> <<>>,
     emo_summary |-> <<>>, rag_context |-> <<>>, response |-> NoResponse,
     reply |-> <<>>, exc |-> "none", text |-> <<>>, emotion |-> "none",
     raised |-> FALSE, audio |-> "none", http |-> 0]

PriorHistory ==
    [i \in 1..PriorTurns |->
        [role |-> IF i % 2 = 1 THEN "user" ELSE "assistant",
         content |-> <<"old", ToString(i)>>,
         emotion |-> IF i % 2 = 1 THEN "none" ELSE NEUTRAL,
         call |-> 0 - i]]

Init ==
    /\ rag_engine \in BOOLEAN
    /\ base_system_prompt = <<"PERSONA">>
    /\ current_state = InitialState
    /\ conversations = [u \in Users |-> IF u = "u1" THEN PriorHistory ELSE <<>>]
    /\ emotional_states = [u \in Users |-> <<>>]
    /\ rag_index = <<>>
    /\ rag_queries = 0
    /\ tts_engine = TRUE
    /\ call = [c \in Calls |-> IdleFrame]
    /\ env = [rag |-> rag_engine, mic |-> FALSE, prompt_file |-> TRUE]
    /\ engine = "constructed"
    /\ wake_word_enabled = FALSE
    /\ wake_word_engine = "none"
    /\ is_listening = FALSE
    /\ listening_thread = 0
    /\ thread = [t \in Threads |-> UnbornThread]
    /\ caller = [p \in WakeCallers |-> IdleCaller]

\* a request may start when a worker is free; requests are numbered as they start
MayStart(c) ==
    /\ call[c].pc = "idle"
    /\ \A d \in Calls : d < c => call[d].pc # "idle"
    /\ Cardinality({d \in Calls : call[d].pc \notin {"idle", "finished"}})
           < Cardinality(Workers)

\* POST /api/chat: chat() enters generate_response(message, user_id), whose first
\* statement is emotional_state = update_emotional_state(user_message)
update_emotional_state(c, u, m) ==
    /\ MayStart(c)
    /\ current_state' = Classify(m, current_state)
    /\ call' = [call EXCEPT ![c] = [@ EXCEPT !.pc = StepAfter("idle"), !.user = u,
                                            !.msg = m, !.state = current_state']]
    /\ UNCHANGED wake_vars
    /\ UNCHANGED <<rag_engine, base_system_prompt, conversations,
                   emotional_states, rag_index, rag_queries, tts_engine>>

\* build_prompt: memory_system.add_emotional_state(user_id, emotional_state)
add_emotional_state(c) ==
    /\ call[c].pc = "add_state"
    /\ emotional_states' = [emotional_states EXCEPT
                               ![call[c].user] = Append(@, call[c].state)]
    /\ call' = [call EXCEPT ![c] = [@ EXCEPT !.pc = StepAfter("add_state")]]
    /\ UNCHANGED wake_vars
    /\ UNCHANGED <<rag_engine, base_system_prompt, current_state, conversations,
                   rag_index, rag_queries, tts_engine>>

\* build_prompt: emotional_modifier = get_emotional_modifier()
read_emotional_modifier(c) ==
    /\ call[c].pc = "modifier"
    /\ call' = [call EXCEPT ![c] = [@ EXCEPT
                   !.pc = StepAfter("modifier"),
                   !.modifier = get_emotional_modifier(current_state)]]
    /\ UNCHANGED wake_vars
    /\ UNCHANGED <<rag_engine, base_system_prompt, current_state, conversations,
                   emotional_states, rag_index, rag_queries, tts_engine>>

\* build_prompt: the conversation context and the two summaries
read_memory(c) ==
    /\ call[c].pc = "context"
    /\ LET u == call[c].user
       IN  call' = [call EXCEPT ![c] = [@ EXCEPT
                   !.pc = StepAfter("context"),
                   !.context = get_conversation_context(conversations[u], MaxContext),
                   !.emo_summary = get_emotional_summary(emotional_states[u]),
                   !.conv_summary = get_conversation_summary(conversations[u])]]
    /\ UNCHANGED wake_vars
    /\ UNCHANGED <<rag_engine, base_system_prompt, current_state, conversations,
                   emotional_states, rag_index, rag_queries, tts_engine>>

\* build_prompt: the retrieval context; calling query on a missing engine raises
read_rag(c) ==
    /\ call[c].pc = "rag_query"
    /\ IF RagEnabled
       THEN /\ rag_queries' = rag_queries + 1
            /\ call' = [call EXCEPT ![c] =
                  IF rag_engine
                  THEN [@ EXCEPT !.pc = StepAfter("rag_query"),
                                 !.rag_context = RagContext(rag_query(rag_index, RagResults))]
                  ELSE Raise(@, "AttributeError")]
       ELSE /\ rag_queries' = rag_queries
            /\ call' = [call EXCEPT ![c] = [@ EXCEPT !.pc = StepAfter("rag_query")]]
    /\ UNCHANGED wake_vars
    /\ UNCHANGED <<rag_engine, base_system_prompt, current_state, conversations,
                   emotional_states, rag_index, tts_engine>>

\* the locals of build_prompt are dead once the messages were sent
Sent(f, r) ==
    [f EXCEPT !.response = r, !.modifier = <<>>, !.context = <<>>,
              !.conv_summary = <<>>, !.emo_summary = <<>>, !.rag_context = <<>>]

\* generate_response: requests.post, the status test, the body and the sanitizing
post(c, r) ==
    /\ call[c].pc = "post"
    /\ call' = [call EXCEPT ![c] =
          LET f == Sent(@, r)
          IN  IF r.kind = "timeout" THEN Raise(f, "Timeout")
              ELSE IF r.kind = "connection" THEN Raise(f, "ConnectionError")
              ELSE IF StatusAccepted(r.status)
                   THEN IF r.wellformed
                        THEN [f EXCEPT !.pc = StepAfter("post"),
                                       !.reply = Sanitize(r.content)]
                        ELSE Raise(f, "KeyError")
                   ELSE Return(f, StatusText(r.status), NEUTRAL)]
    /\ UNCHANGED wake_vars
    /\ UNCHANGED <<rag_engine, base_system_prompt, current_state, conversations,
                   emotional_states, rag_index, rag_queries, tts_engine>>

\* generate_response: memory_system.add_message(user_id, "user", user_message)
add_user_message(c) ==
    /\ call[c].pc = "add_user"
    /\ conversations' = [conversations EXCEPT
                            ![call[c].user] = Append(@, UserTurn(c, call[c]))]
    /\ call' = [call EXCEPT ![c] = [@ EXCEPT !.pc = StepAfter("add_user")]]
    /\ UNCHANGED wake_vars
    /\ UNCHANGED <<rag_engine, base_system_prompt, current_state,
                   emotional_states, rag_index, rag_queries, tts_engine>>

\* generate_response: memory_system.add_message(user_id, "assistant", ...)
add_assistant_message(c) ==
    /\ call[c].pc = "add_asst"
    /\ conversations' = [conversations EXCEPT
                            ![call[c].user] = Append(@, AssistantTurn(c, call[c]))]
    /\ call' = [call EXCEPT ![c] = [@ EXCEPT !.pc = StepAfter("add_asst")]]
    /\ UNCHANGED wake_vars
    /\ UNCHANGED <<rag_engine, base_system_prompt, current_state,
                   emotional_states, rag_index, rag_queries, tts_engine>>

\* generate_response: rag_engine.add_conversation_turn(user_message, assistant_response)
add_conversation_turn(c) ==
    /\ call[c].pc = "rag_add"
    /\ IF RagEnabled
       THEN /\ rag_index' = IF rag_engine THEN Append(rag_index, RagEntry(c, call[c]))
                            ELSE rag_index
            /\ call' = [call EXCEPT ![c] =
                  IF rag_engine THEN [@ EXCEPT !.pc = StepAfter("rag_add")]
                  ELSE Raise(@, "AttributeError")]
       ELSE /\ rag_index' = rag_index
            /\ call' = [call EXCEPT ![c] = [@ EXCEPT !.pc = StepAfter("rag_add")]]
    /\ UNCHANGED wake_vars
    /\ UNCHANGED <<rag_engine, base_system_prompt, current_state, conversations,
                   emotional_states, rag_queries, tts_engine>>

\* generate_response: return assistant_response, current_state.emotion
return_response(c) ==
    /\ call[c].pc = "return"
    /\ call' = [call EXCEPT ![c] = Return(@, @.reply, current_state.emotion)]
    /\ UNCHANGED wake_vars
    /\ UNCHANGED <<rag_engine, base_system_prompt, current_state, conversations,
                   emotional_states, rag_index, rag_queries, tts_engine>>

Next ==
    \E c \in Calls :
        \/ \E u \in Users, m \in Utterances : update_emotional_state(c, u, m)
        \/ add_emotional_state(c)
        \/ read_emotional_modifier(c)
        \/ read_memory(c)
        \/ read_rag(c)
        \/ \E r \in Responses : post(c, r)
        \/ add_user_message(c)
        \/ add_assistant_message(c)
        \/ add_conversation_turn(c)
        \/ return_response(c)

Spec == Init /\ [][Next]_vars

\* ------------------------------------------------ collaborators that raise
\* update_emotional_state raises
emotion_fails(c, u, m) ==
    /\ MayStart(c)
    /\ call' = [call EXCEPT ![c] =
                   Raise([@ EXCEPT !.user = u, !.msg = m], "EmotionError")]
    /\ UNCHANGED wake_vars
    /\ UNCHANGED <<rag_engine, base_system_prompt, current_state, conversations,
                   emotional_states, rag_index, rag_queries, tts_engine>>

\* a MemorySystem operation raises: add_emotional_state, the context and summary
\* reads, or one of the two add_message calls
memory_fails(c) ==
    /\ call[c].pc \in {"add_state", "context", "add_user", "add_asst"}
    /\ call' = [call EXCEPT ![c] = Raise(@, "MemoryError")]
    /\ UNCHANGED wake_vars
    /\ UNCHANGED <<rag_engine, base_system_prompt, current_state, conversations,
                   emotional_states, rag_index, rag_queries, tts_engine>>

\* rag_engine.query raises
rag_query_fails(c) ==
    /\ call[c].pc = "rag_query"
    /\ RagEnabled /\ rag_engine
    /\ rag_queries' = rag_queries + 1
    /\ call' = [call EXCEPT ![c] = Raise(@, "RagQueryError")]
    /\ UNCHANGED wake_vars
    /\ UNCHANGED <<rag_engine, base_system_prompt, current_state, conversations,
                   emotional_states, rag_index, tts_engine>>

\* rag_engine.add_conversation_turn raises, before or after the entry was stored
rag_add_fails(c, stored) ==
    /\ call[c].pc = "rag_add"
    /\ RagEnabled /\ rag_engine
    /\ rag_index' = IF stored THEN Append(rag_index, RagEntry(c, call[c]))
                    ELSE rag_index
    /\ call' = [call EXCEPT ![c] = Raise(@, "RagAddError")]
    /\ UNCHANGED wake_vars
    /\ UNCHANGED <<rag_engine, base_system_prompt, current_state, conversations,
                   emotional_states, rag_queries, tts_engine>>

\* text_to_speech starts to raise
tts_fails ==
    /\ tts_engine
    /\ tts_engine' = FALSE
    /\ UNCHANGED wake_vars
    /\ UNCHANGED <<rag_engine, base_system_prompt, current_state, conversations,
                   emotional_states, rag_index, rag_queries, call>>

Faults ==
    \/ tts_fails
    \/ \E c \in Calls :
        \/ \E u \in Users, m \in Utterances : emotion_fails(c, u, m)
        \/ memory_fails(c)
        \/ rag_query_fails(c)
        \/ \E stored \in BOOLEAN : rag_add_fails(c, stored)

NextFaults == Next \/ Faults

SpecFaults == Init /\ [][NextFaults]_vars

\* ------------------------------------------------------- AIEngine.__init__
\* try: self.rag_engine = RAGEngine()  except Exception: self.rag_engine = None
InitRag(ok) == [rag_engine |-> ok, raised |-> FALSE]

\* a variant that leaves wake_word_enabled set when WakeWordEngine() raised
InitWakeWordKeepsFlag(enable_wake_word, ok) ==
    IF ~enable_wake_word
    THEN [engine |-> "unset", enabled |-> FALSE, raised |-> FALSE]
    ELSE IF ok THEN [engine |-> "engine", enabled |-> TRUE, raised |-> FALSE]
         ELSE [engine |-> "none", enabled |-> TRUE, raised |-> FALSE]

\* self.wake_word_enabled = enable_wake_word and the guarded WakeWordEngine(...)
InitWakeWord(enable_wake_word, ok) ==
    IF ~enable_wake_word
    THEN [engine |-> "unset", enabled |-> FALSE, raised |-> FALSE]
    ELSE IF ok THEN [engine |-> "engine", enabled |-> TRUE, raised |-> FALSE]
         ELSE [engine |-> "none", enabled |-> FALSE, raised |-> FALSE]

\* the guarded read of system_prompt.txt
LoadPrompt(ok) ==
    [text |-> IF ok THEN <<"PERSONA">> ELSE <<>>, raised |-> FALSE]

\* the engine before its constructor ran, on every kind of host
InitWake ==
    /\ env \in [rag : BOOLEAN, mic : BOOLEAN, prompt_file : BOOLEAN]
    /\ engine = "new"
    /\ rag_engine = FALSE
    /\ base_system_prompt = <<>>
    /\ current_state = InitialState
    /\ conversations = [u \in Users |-> IF u = "u1" THEN PriorHistory ELSE <<>>]
    /\ emotional_states = [u \in Users |-> <<>>]
    /\ rag_index = <<>>
    /\ rag_queries = 0
    /\ tts_engine = TRUE
    /\ call = [c \in Calls |-> IdleFrame]
    /\ wake_word_enabled = FALSE
    /\ wake_word_engine = "unset"
    /\ is_listening = FALSE
    /\ listening_thread = 0
    /\ thread = [t \in Threads |-> UnbornThread]
    /\ caller = [p \in WakeCallers |-> IdleCaller]

\* AIEngine(enable_wake_word=...): the constructor, run before the engine is shared
AIEngine_init(enable_wake_word) ==
    /\ engine = "new"
    /\ LET r == InitRag(env.rag)
           w == InitWakeWord(enable_wake_word, env.mic)
           l == LoadPrompt(env.prompt_file)
       IN  /\ rag_engine' = r.rag_engine
           /\ wake_word_engine' = w.engine
           /\ wake_word_enabled' = w.enabled
           /\ base_system_prompt' = l.text
           /\ engine' = IF r.raised \/ w.raised \/ l.raised
                        THEN "failed" ELSE "constructed"
    /\ UNCHANGED chat_vars
    /\ UNCHANGED <<env, is_listening, listening_thread, thread, caller>>

\* -------------------------------------------------------- WakeWordEngine
LowerChar(ch) ==
    CASE ch = "L" -> "l" [] ch = "I" -> "i" [] ch = "Y" -> "y" [] OTHER -> ch

UpperChar(ch) ==
    CASE ch = "l" -> "L" [] ch = "i" -> "I" [] ch = "y" -> "Y" [] OTHER -> ch

\* str.lower() and str.upper()
lower(text) == [i \in 1..Len(text) |-> LowerChar(text[i])]
upper(text) == [i \in 1..Len(text) |-> UpperChar(text[i])]

\* the "in" operator on strings
In(w, text) ==
    \E i \in 0..(Len(text) - Len(w)) : SubSeq(text, i + 1, i + Len(w)) = w

\* self.wake_word = wake_word.upper() with wake_word="LILY"
wake_word == upper(<<"L", "I", "L", "Y">>)

\* what recognize_google may return
RecognisedTexts ==
    { <<"h", "o", "l", "a">>,
      <<"L", "i", "l", "y">>,
      <<"o", "y", "e", " ", "l", "I", "L", "Y", "!">>,
      <<"l", "i", "l">> }

\* "if self.wake_word.lower() in text.lower():"
Detects(text) == In(lower(wake_word), lower(text))

\* "if self.is_listening:" in start_listening
AlreadyListening == is_listening

StartPcs == {"start_test", "start_set", "start_create", "start_daemon", "start_run"}
StopPcs == {"stop_set", "stop_test", "stop_bind", "stop_join"}

\* the listen loops that are running
Alive == {t \in Threads : thread[t].pc \in {"test", "listen", "recognize", "callback"}}

\* the caller's call ended with the given result
Returned(f, result) == [f EXCEPT !.pc = "idle", !.target = 0, !.result = result]

\* a call may start while a Thread object can still be created for it
MayCall(p) ==
    /\ engine = "constructed"
    /\ caller[p].pc = "idle"
    /\ Cardinality({t \in Threads : thread[t].pc = "unborn"})
          > Cardinality({q \in WakeCallers :
                            caller[q].pc \in {"start_test", "start_set", "start_create"}})

\* AIEngine.enable_wake_word_detection: start_listening when the engine is there
enable_wake_word_detection(p) ==
    /\ MayCall(p)
    /\ caller' = [caller EXCEPT ![p] =
          IF wake_word_enabled /\ wake_word_engine = "engine"
          THEN [@ EXCEPT !.pc = "start_test", !.op = "enable", !.result = "none"]
          ELSE Returned([@ EXCEPT !.op = "enable"], "skipped")]
    /\ UNCHANGED <<rag_engine, base_system_prompt>>
    /\ UNCHANGED chat_vars
    /\ UNCHANGED <<env, engine, wake_word_enabled, wake_word_engine, is_listening,
                   listening_thread, thread>>

\* AIEngine.disable_wake_word_detection: stop_listening when the engine is there
disable_wake_word_detection(p) ==
    /\ engine = "constructed"
    /\ caller[p].pc = "idle"
    /\ caller' = [caller EXCEPT ![p] =
          IF wake_word_enabled /\ wake_word_engine = "engine"
          THEN [@ EXCEPT !.pc = "stop_set", !.op = "disable", !.result = "none"]
          ELSE Returned([@ EXCEPT !.op = "disable"], "skipped")]
    /\ UNCHANGED <<rag_engine, base_system_prompt>>
    /\ UNCHANGED chat_vars
    /\ UNCHANGED <<env, engine, wake_word_enabled, wake_word_engine, is_listening,
                   listening_thread, thread>>

\* start_listening: "if self.is_listening: return"
start_test(p) ==
    /\ caller[p].pc = "start_test"
    /\ caller' = [caller EXCEPT ![p] =
          IF AlreadyListening THEN Returned(@, "already")
          ELSE [@ EXCEPT !.pc = "start_set"]]
    /\ UNCHANGED <<rag_engine, base_system_prompt>>
    /\ UNCHANGED chat_vars
    /\ UNCHANGED <<env, engine, wake_word_enabled, wake_word_engine, is_listening,
                   listening_thread, thread>>

\* start_listening: self.is_listening = True
start_set(p) ==
    /\ caller[p].pc = "start_set"
    /\ is_listening' = TRUE
    /\ caller' = [caller EXCEPT ![p] = [@ EXCEPT !.pc = "start_create"]]
    /\ UNCHANGED <<rag_engine, base_system_prompt>>
    /\ UNCHANGED chat_vars
    /\ UNCHANGED <<env, engine, wake_word_enabled, wake_word_engine,
                   listening_thread, thread>>

\* start_listening: self.listening_thread = threading.Thread(target=self._listen_loop)
start_create(p) ==
    /\ caller[p].pc = "start_create"
    /\ LET t == CHOOSE x \in Threads :
                    /\ thread[x].pc = "unborn"
                    /\ \A y \in Threads : thread[y].pc = "unborn" => x <= y
       IN  /\ thread' = [thread EXCEPT ![t] = [@ EXCEPT !.pc = "created"]]
           /\ listening_thread' = t
    /\ caller' = [caller EXCEPT ![p] = [@ EXCEPT !.pc = "start_daemon"]]
    /\ UNCHANGED <<rag_engine, base_system_prompt>>
    /\ UNCHANGED chat_vars
    /\ UNCHANGED <<env, engine, wake_word_enabled, wake_word_engine, is_listening>>

\* start_listening: self.listening_thread.daemon = True, which raises RuntimeError
\* on a thread that was started
start_daemon(p) ==
    /\ caller[p].pc = "start_daemon"
    /\ caller' = [caller EXCEPT ![p] =
          IF thread[listening_thread].pc = "created"
          THEN [@ EXCEPT !.pc = "start_run"]
          ELSE Returned(@, "RuntimeError")]
    /\ UNCHANGED <<rag_engine, base_system_prompt>>
    /\ UNCHANGED chat_vars
    /\ UNCHANGED <<env, engine, wake_word_enabled, wake_word_engine, is_listening,
                   listening_thread, thread>>

\* start_listening: self.listening_thread.start(), which raises RuntimeError on a
\* thread that was started
start_run(p) ==
    /\ caller[p].pc = "start_run"
    /\ IF thread[listening_thread].pc = "created"
       THEN /\ thread' = [thread EXCEPT ![listening_thread] = [@ EXCEPT !.pc = "test"]]
            /\ caller' = [caller EXCEPT ![p] = Returned(@, "started")]
       ELSE /\ thread' = thread
            /\ caller' = [caller EXCEPT ![p] = Returned(@, "RuntimeError")]
    /\ UNCHANGED <<rag_engine, base_system_prompt>>
    /\ UNCHANGED chat_vars
    /\ UNCHANGED <<env, engine, wake_word_enabled, wake_word_engine, is_listening,
                   listening_thread>>

\* stop_listening: self.is_listening = False
stop_set(p) ==
    /\ caller[p].pc = "stop_set"
    /\ is_listening' = FALSE
    /\ caller' = [caller EXCEPT ![p] = [@ EXCEPT !.pc = "stop_test"]]
    /\ UNCHANGED <<rag_engine, base_system_prompt>>
    /\ UNCHANGED chat_vars
    /\ UNCHANGED <<env, engine, wake_word_enabled, wake_word_engine,
                   listening_thread, thread>>

\* stop_listening: "if self.listening_thread:"
stop_test(p) ==
    /\ caller[p].pc = "stop_test"
    /\ caller' = [caller EXCEPT ![p] =
          IF listening_thread # 0 THEN [@ EXCEPT !.pc = "stop_bind"]
          ELSE Returned(@, "stopped")]
    /\ UNCHANGED <<rag_engine, base_system_prompt>>
    /\ UNCHANGED chat_vars
    /\ UNCHANGED <<env, engine, wake_word_enabled, wake_word_engine, is_listening,
                   listening_thread, thread>>

\* stop_listening: self.listening_thread.join() is entered on the thread the
\* attribute holds now; it raises RuntimeError on a thread that was not started
stop_bind(p) ==
    /\ caller[p].pc = "stop_bind"
    /\ caller' = [caller EXCEPT ![p] =
          IF thread[listening_thread].pc = "created"
          THEN Returned(@, "RuntimeError")
          ELSE [@ EXCEPT !.pc = "stop_join", !.target = listening_thread]]
    /\ UNCHANGED <<rag_engine, base_system_prompt>>
    /\ UNCHANGED chat_vars
    /\ UNCHANGED <<env, engine, wake_word_enabled, wake_word_engine, is_listening,
                   listening_thread, thread>>

\* stop_listening: join() returns once the thread has ended
stop_join(p) ==
    /\ caller[p].pc = "stop_join"
    /\ thread[caller[p].target].pc = "dead"
    /\ caller' = [caller EXCEPT ![p] = Returned(@, "stopped")]
    /\ UNCHANGED <<rag_engine, base_system_prompt>>
    /\ UNCHANGED chat_vars
    /\ UNCHANGED <<env, engine, wake_word_enabled, wake_word_engine, is_listening,
                   listening_thread, thread>>

\* a variant whose loop does not test the flag
LoopConditionAlways == TRUE

\* the condition of "while self.is_listening:"
LoopCondition == is_listening

\* _listen_loop: "while self.is_listening:"
loop_test(t) ==
    /\ thread[t].pc = "test"
    /\ thread' = [thread EXCEPT ![t] =
          [@ EXCEPT !.pc = IF LoopCondition THEN "listen" ELSE "dead"]]
    /\ UNCHANGED <<rag_engine, base_system_prompt>>
    /\ UNCHANGED chat_vars
    /\ UNCHANGED <<env, engine, wake_word_enabled, wake_word_engine, is_listening,
                   listening_thread, caller>>

\* _listen_loop: recognizer.listen returns audio, or raises WaitTimeoutError
\* (continue) or another exception (sleep, next iteration)
listen(t, outcome) ==
    /\ thread[t].pc = "listen"
    /\ thread' = [thread EXCEPT ![t] =
          [@ EXCEPT !.pc = IF outcome = "audio" THEN "recognize" ELSE "test"]]
    /\ UNCHANGED <<rag_engine, base_system_prompt>>
    /\ UNCHANGED chat_vars
    /\ UNCHANGED <<env, engine, wake_word_enabled, wake_word_engine, is_listening,
                   listening_thread, caller>>

\* _listen_loop: recognize_google raises UnknownValueError or RequestError, or
\* returns a text that is tested for the wake word
recognize_google(t, outcome) ==
    /\ thread[t].pc = "recognize"
    /\ thread' = [thread EXCEPT ![t] =
          IF outcome.kind = "text" /\ Detects(outcome.text)
          THEN [@ EXCEPT !.pc = "callback", !.text = outcome.text]
          ELSE [@ EXCEPT !.pc = "test"]]
    /\ UNCHANGED <<rag_engine, base_system_prompt>>
    /\ UNCHANGED chat_vars
    /\ UNCHANGED <<env, engine, wake_word_enabled, wake_word_engine, is_listening,
                   listening_thread, caller>>

\* _listen_loop: self.wake_word_callback(), then time.sleep(2) and the next
\* iteration; an exception out of the callback ends in the outer except clause
wake_word_callback(t) ==
    /\ thread[t].pc = "callback"
    /\ thread' = [thread EXCEPT ![t] = [@ EXCEPT !.pc = "test", !.text = <<>>]]
    /\ UNCHANGED <<rag_engine, base_system_prompt>>
    /\ UNCHANGED chat_vars
    /\ UNCHANGED <<env, engine, wake_word_enabled, wake_word_engine, is_listening,
                   listening_thread, caller>>

ListenOutcomes == {"audio", "WaitTimeoutError", "Exception"}
RecognizeOutcomes ==
    { [kind |-> k, text |-> <<>>] : k \in {"UnknownValueError", "RequestError"} }
    \cup { [kind |-> "text", text |-> x] : x \in RecognisedTexts }

\* one step of listener thread t
ListenerStep(t) ==
    \/ loop_test(t)
    \/ \E o \in ListenOutcomes : listen(t, o)
    \/ \E o \in RecognizeOutcomes : recognize_google(t, o)
    \/ wake_word_callback(t)

\* one step of a wake-word call that caller p is in
CallStep(p) ==
    \/ start_test(p)
    \/ start_set(p)
    \/ start_create(p)
    \/ start_daemon(p)
    \/ start_run(p)
    \/ stop_set(p)
    \/ stop_test(p)
    \/ stop_bind(p)
    \/ stop_join(p)

NextWake ==
    \/ \E e \in BOOLEAN : AIEngine_init(e)
    \/ \E p \in WakeCallers :
        \/ enable_wake_word_detection(p)
        \/ disable_wake_word_detection(p)
        \/ CallStep(p)
    \/ \E t \in Threads : ListenerStep(t)

\* the engine with callers whose calls may overlap
SpecWake == InitWake /\ [][NextWake]_vars

NoStartInFlight == \A q \in WakeCallers : caller[q].pc \notin StartPcs
NoStopInFlight == \A q \in WakeCallers : caller[q].pc \notin StopPcs

\* a start_listening call that begins while no stop_listening call is in progress
enable_apart(p) == NoStopInFlight /\ enable_wake_word_detection(p)

\* a stop_listening call that begins while no start_listening call is in progress
disable_apart(p) == NoStartInFlight /\ disable_wake_word_detection(p)

NextWakeApart ==
    \/ \E e \in BOOLEAN : AIEngine_init(e)
    \/ \E p \in WakeCallers :
        \/ enable_apart(p)
        \/ disable_apart(p)
        \/ CallStep(p)
    \/ \E t \in Threads : ListenerStep(t)

\* the engine with no start_listening call overlapping a stop_listening call,
\* every listener thread and every call in progress being scheduled
SpecWakeFair ==
    /\ InitWake
    /\ [][NextWakeApart]_vars
    /\ \A t \in Threads : WF_vars(ListenerStep(t))
    /\ \A p \in WakeCallers : WF_vars(CallStep(p))

\* ------------------------------------------------------------------ claims
Finished(c) == call[c].pc = "finished"

\* the model request of call c was answered 200 with a body holding message.content
ModelReplied(c) ==
    /\ call[c].response.kind = "response"
    /\ call[c].response.status = StatusOK
    /\ call[c].response.wellformed

ModelTimedOut(c) == call[c].response.kind = "timeout"

\* the model request of call c failed otherwise: connection error, non-200
\* status, or a body without the message field
ModelFailedOtherwise(c) ==
    \/ call[c].response.kind = "connection"
    \/ /\ call[c].response.kind = "response"
       /\ \/ call[c].response.status # StatusOK
          \/ ~call[c].response.wellformed

\* the positions of call c's turns in user u's dialogue history
TurnsOf(c, u) == {i \in 1..Len(conversations[u]) : conversations[u][i].call = c}

\* C1: every finished chat request has a reply text and an emotion: nothing
\* left generate_response as an exception and the handler answered 200, whatever
\* the model answered and whichever collaborator raised.
C1_AlwaysReplies ==
    \A c \in Calls :
        Finished(c) =>
            /\ ~call[c].raised
            /\ call[c].emotion \in EmotionType
            /\ call[c].http = 200

C1_Witness ==
    \E c, d \in Calls :
        /\ Finished(c) /\ call[c].exc = "RagAddError"
        /\ call[c].http = 200 /\ call[c].audio = "none"
        /\ Finished(d) /\ call[d].exc = "MemoryError" /\ call[d].http = 200

\* C2: a call whose model request timed out returns the fixed apology, the same
\* for every utterance and user, with the emotion PREOCUPADA, and raises nothing.
C2_TimeoutReply ==
    \A c \in Calls :
        Finished(c) /\ ModelTimedOut(c) =>
            /\ call[c].text = TimeoutText
            /\ call[c].emotion = PREOCUPADA
            /\ ~call[c].raised

C2_Witness ==
    \E c, d \in Calls :
        /\ Finished(c) /\ ModelTimedOut(c)
        /\ Finished(d) /\ ModelTimedOut(d)
        /\ call[c].user # call[d].user
        /\ call[c].msg # call[d].msg
        /\ call[c].text = call[d].text

C4_OtherFailuresWorried ==
    \A c \in Calls :
        Finished(c) /\ ModelFailedOtherwise(c) =>
            /\ call[c].emotion = PREOCUPADA
            /\ Len(call[c].text) = 2
            /\ call[c].text[1] = "Ay Mijin, algo salio mal: "

\* C5: every entry of the retrieval index comes from a call whose model request
\* was answered 200, holds that call's utterance and sanitized reply, which is
\* the text the call returns; no call is indexed twice, so the entries never
\* outnumber the calls that return a model reply.
C5_RagOnlyModelReplies ==
    /\ \A i \in 1..Len(rag_index) :
          LET e == rag_index[i]
              c == e.call
          IN  /\ c \in Calls
              /\ ModelReplied(c)
              /\ e.user = <<call[c].msg>>
              /\ e.assistant = Sanitize(call[c].response.content)
              /\ Finished(c) => call[c].text = e.assistant /\ call[c].exc = "none"
              /\ \A j \in 1..Len(rag_index) : rag_index[j].call = c => j = i
    /\ Len(rag_index) <= Cardinality({c \in Calls : ModelReplied(c)})
    /\ (\A c \in Calls : Finished(c)) =>
          Len(rag_index) <= Cardinality({c \in Calls : call[c].exc = "none"
                                            /\ call[c].text = call[c].reply
                                            /\ ModelReplied(c)})

C5_Witness ==
    \E c, d \in Calls :
        /\ Finished(c) /\ ModelReplied(c)
        /\ Finished(d) /\ (ModelTimedOut(d) \/ ModelFailedOtherwise(d))
        /\ Len(rag_index) = 1 /\ rag_index[1].call = c

\* C6: a call that got a model reply appends the user turn with the utterance,
\* then the assistant turn with the sanitized reply tagged with the emotion of
\* the slot at that moment, and only then one entry to the retrieval index when
\* it is present; once finished it has exactly these two turns, one entry, and
\* the stored, indexed and returned texts are the same.
C6_State ==
    \A c \in Calls :
        LET u == call[c].user
            h == IF u \in Users THEN conversations[u] ELSE <<>>
            t == IF u \in Users THEN TurnsOf(c, u) ELSE {}
            e == {i \in 1..Len(rag_index) : rag_index[i].call = c}
        IN  /\ \A v \in Users \ {u} : TurnsOf(c, v) = {}
            /\ Cardinality(t) <= 2
            /\ \A i \in t :
                  IF \A j \in t : i <= j
                  THEN h[i].role = "user" /\ h[i].content = <<call[c].msg>>
                  ELSE /\ h[i].role = "assistant"
                       /\ h[i].content = Sanitize(call[c].response.content)
                       /\ h[i].emotion \in EmotionType
            /\ e # {} => /\ Cardinality(t) = 2
                         /\ rag_engine
                         /\ Cardinality(e) = 1
            /\ \A i \in e : /\ rag_index[i].user = <<call[c].msg>>
                            /\ rag_index[i].assistant = Sanitize(call[c].response.content)
            /\ Finished(c) /\ ModelReplied(c) =>
                  /\ Cardinality(t) = 2
                  /\ Cardinality(e) = (IF rag_engine THEN 1 ELSE 0)
                  /\ call[c].text = Sanitize(call[c].response.content)
                  /\ \E i \in t : h[i].role = "assistant" /\ h[i].content = call[c].text
                  /\ \A i \in e : rag_index[i].assistant = call[c].text

\* the assistant turn a step appends carries the emotion the slot holds then
C6_Step ==
    \A u \in Users :
        /\ Len(conversations'[u]) > Len(conversations[u])
        /\ conversations'[u][Len(conversations'[u])].role = "assistant"
        => conversations'[u][Len(conversations'[u])].emotion = current_state.emotion

C6_TurnThenIndex == []C6_State /\ [][C6_Step]_vars

C6_Witness ==
    \E c \in Calls :
        /\ Finished(c) /\ ModelReplied(c) /\ rag_engine
        /\ Cardinality(TurnsOf(c, call[c].user)) = 2
        /\ \E i \in 1..Len(rag_index) : rag_index[i].call = c
        /\ call[c].text = <<"Hello!", ThinkClose>>

\* C7 as claimed: the emotion a call with a model reply returns, and the label
\* of the assistant turn it stored, are the emotion of the record its own
\* update_emotional_state produced.
C7_OwnEmotion ==
    \A c \in Calls :
        Finished(c) /\ ModelReplied(c) =>
            /\ call[c].emotion = call[c].state.emotion
            /\ \A i \in TurnsOf(c, call[c].user) :
                  conversations[call[c].user][i].role = "assistant" =>
                      conversations[call[c].user][i].emotion = call[c].state.emotion

\* C8: without a retrieval engine nothing is queried or indexed, the system
\* message ends with the summaries, the model is asked, and a call with a model
\* reply stores both turns and returns the sanitized reply.
C8_WithoutRag ==
    ~rag_engine =>
        /\ rag_queries = 0
        /\ rag_index = <<>>
        /\ \A c \in Calls :
              /\ call[c].rag_context = <<>>
              /\ call[c].exc = "none" \/ ModelTimedOut(c) \/ ModelFailedOtherwise(c)
              /\ call[c].pc = "post" =>
                    Messages(call[c])[1].content =
                        base_system_prompt
                        \o <<"CONTEXTO EMOCIONAL ACTUAL:">> \o call[c].modifier
                        \o <<"Tu emocion actual:", call[c].state.emotion,
                             ToString(call[c].state.intensity)>>
                        \o <<"Razon:", call[c].state.reason>>
                        \o <<"MEMORIA DE CONVERSACION:">>
                        \o call[c].conv_summary \o call[c].emo_summary
              /\ Finished(c) => call[c].response.kind # "none"
              /\ Finished(c) /\ ModelReplied(c) =>
                    /\ call[c].text = Sanitize(call[c].response.content)
                    /\ Cardinality(TurnsOf(c, call[c].user)) = 2
                    /\ ~call[c].raised

C8_Witness ==
    \E c \in Calls :
        /\ ~rag_engine
        /\ Finished(c) /\ ModelReplied(c)
        /\ Cardinality(TurnsOf(c, call[c].user)) = 2
        /\ call[c].text = <<"Hello!", ThinkClose>>

\* C9 as claimed: when rag_engine.query raised the model was still asked, and
\* when add_conversation_turn raised after a model reply the call returns that
\* reply and its emotion, not a fallback.
C9_RetrievalFailureHidden ==
    \A c \in Calls :
        Finished(c) =>
            /\ call[c].exc = "RagQueryError" => call[c].response.kind # "none"
            /\ call[c].exc = "RagAddError" =>
                  /\ call[c].text = call[c].reply
                  /\ call[c].text[1] # "Ay Mijin, algo salio mal: "

\* C10: the message list is one system message, then the context that
\* get_conversation_context returned, then the utterance as the last message.
\* The context is the last MaxContext turns of the history at the moment it is
\* read (all of them when there are fewer), oldest first; later it is still a
\* run of consecutive turns of the history, followed only by turns that other
\* requests stored since, and no turn of the call itself is part of it.
C10_State ==
    \A c \in Calls :
        call[c].pc = "post" =>
            LET f == call[c]
                m == Messages(f)
                h == conversations[f.user]
                n == Len(f.context)
            IN  /\ Len(m) = n + 2
                /\ n <= MaxContext
                /\ m[1].role = "system"
                /\ \A i \in 2..Len(m) : m[i].role # "system"
                /\ m[Len(m)] = [role |-> "user", content |-> <<f.msg>>]
                /\ \A i \in 1..n : /\ m[i + 1].role = f.context[i].role
                                   /\ m[i + 1].content = f.context[i].content
                                   /\ f.context[i].call # c
                /\ \E k \in 0..Len(h) :
                      /\ n = (IF k < MaxContext THEN k ELSE MaxContext)
                      /\ \A i \in 1..n : f.context[i] = h[k - n + i]
                      /\ \A i \in (k + 1)..Len(h) : h[i].call \in Calls \ {c}
                /\ TurnsOf(c, f.user) = {}

C10_Step ==
    \A c \in Calls :
        call[c].pc = "context" /\ call'[c].pc = "rag_query" =>
            LET h == conversations[call[c].user]
                x == call'[c].context
                n == Len(x)
            IN  /\ n = (IF Len(h) < MaxContext THEN Len(h) ELSE MaxContext)
                /\ \A i \in 1..n : x[i] = h[Len(h) - n + i]

C10_PromptShape == []C10_State /\ [][C10_Step]_vars

C10_Witness ==
    \E c, d \in Calls :
        /\ call[c].pc = "post"
        /\ Finished(d) /\ ModelReplied(d) /\ call[d].user = call[c].user
        /\ Len(conversations[call[c].user]) > MaxContext
        /\ Len(call[c].context) = MaxContext
        /\ call[c].context[MaxContext].call = d
        /\ call[c].context[MaxContext - 1].content = <<call[c].msg>>

\* the size of a message list: the tokens of all its contents
RECURSIVE PromptSize(_)
PromptSize(m) ==
    IF m = <<>> THEN 0 ELSE Len(Head(m).content) + PromptSize(Tail(m))

\* the message list without retrieved snippets and without stored context
MandatoryMessages(f) == Messages([f EXCEPT !.rag_context = <<>>, !.context = <<>>])

\* C11 as claimed: the message list handed to requests.post is never larger
\* than the budget, the persona and the utterance alone always fitting in it.
C11_WithinBudget ==
    \A c \in Calls :
        call[c].pc = "post" =>
            /\ PromptSize(MandatoryMessages(call[c])) <= ContextBudget
            /\ PromptSize(Messages(call[c])) <= ContextBudget

\* ------------------------------------------------------ sanitizing alone
\* the tokens a completion is made of
RawTokens == {ThinkOpen, ThinkClose, " ", "\n", "Hello!"}

\* "<think>ignore me</think>Hello!"
ExampleCompletion == <<ThinkOpen, "ignore", " ", "me", ThinkClose, "Hello!">>

\* every completion of at most MaxRaw tokens, and the example
Completions ==
    UNION { [1..n -> RawTokens] : n \in 0..MaxRaw } \cup {ExampleCompletion}

\* the endpoint answers 200 with a body that holds the completion raw
post_completion(c, raw) ==
    post(c, [kind |-> "response", status |-> StatusOK, wellformed |-> TRUE,
             content |-> raw])

\* one request at a time, answered with any completion
NextSanitize ==
    \/ \E u \in Users, m \in Utterances : update_emotional_state(1, u, m)
    \/ add_emotional_state(1)
    \/ read_emotional_modifier(1)
    \/ read_memory(1)
    \/ read_rag(1)
    \/ \E raw \in Completions : post_completion(1, raw)
    \/ add_user_message(1)
    \/ add_assistant_message(1)
    \/ add_conversation_turn(1)
    \/ return_response(1)

SpecSanitize == Init /\ [][NextSanitize]_vars

\* the positions of raw that lie in a span from a <think> marker to the nearest
\* following </think> marker, the spans taken left to right from position from
RECURSIVE SpanPositions(_, _)
SpanPositions(raw, from) ==
    LET opens == {i \in from..Len(raw) :
                     /\ raw[i] = ThinkOpen
                     /\ \E j \in (i + 1)..Len(raw) : raw[j] = ThinkClose}
    IN  IF opens = {} THEN {}
        ELSE LET i == CHOOSE x \in opens : \A y \in opens : x <= y
                 closes == {k \in (i + 1)..Len(raw) : raw[k] = ThinkClose}
                 j == CHOOSE x \in closes : \A y \in closes : x <= y
             IN  (i..j) \cup SpanPositions(raw, j + 1)

\* raw without the positions in a span
WithoutSpans(raw) ==
    LET keep == (1..Len(raw)) \ SpanPositions(raw, 1)
    IN  [k \in 1..Cardinality(keep) |->
            raw[CHOOSE i \in keep : Cardinality({j \in keep : j <= i}) = k]]

\* s from its first to its last token that is not whitespace
Trimmed(s) ==
    LET solid == {i \in 1..Len(s) : s[i] \notin Whitespace}
    IN  IF solid = {} THEN <<>>
        ELSE SubSeq(s, CHOOSE i \in solid : \A j \in solid : i <= j,
                       CHOOSE i \in solid : \A j \in solid : j <= i)

\* raw holds a <think> marker with a </think> marker after it
HasSpan(raw) ==
    \E i, j \in 1..Len(raw) : i < j /\ raw[i] = ThinkOpen /\ raw[j] = ThinkClose

\* C12: for every completion the text that is stored as the assistant turn,
\* indexed and returned is the completion without its spans from a <think> to
\* the nearest following </think> (whatever lies between, line breaks too),
\* trimmed of surrounding whitespace; the example yields exactly "Hello!", and
\* a completion without a complete pair is only trimmed.
C12_Sanitized ==
    /\ Sanitize(ExampleCompletion) = <<"Hello!">>
    /\ \A c \in Calls :
          ModelReplied(c) /\ call[c].pc # "post" =>
              LET raw == call[c].response.content
                  want == Trimmed(WithoutSpans(raw))
                  h == conversations[call[c].user]
              IN  /\ call[c].reply = want
                  /\ ~HasSpan(raw) => call[c].reply = Trimmed(raw)
                  /\ \A i \in TurnsOf(c, call[c].user) :
                        h[i].role = "assistant" => h[i].content = want
                  /\ \A i \in 1..Len(rag_index) :
                        rag_index[i].call = c => rag_index[i].assistant = want
                  /\ Finished(c) =>
                        /\ call[c].text = want
                        /\ \E i \in TurnsOf(c, call[c].user) :
                              h[i].role = "assistant" /\ h[i].content = want

C12_Witness ==
    \E c \in Calls :
        /\ Finished(c) /\ ModelReplied(c)
        /\ call[c].response.content = <<ThinkOpen, "\n", ThinkClose, ThinkClose>>
        /\ call[c].text = <<ThinkClose>>
        /\ \E i \in TurnsOf(c, call[c].user) :
              conversations[call[c].user][i].content = <<ThinkClose>>

\* the calls made for user u whose add_emotional_state statement was executed
Recorded(u) == {c \in Calls : call[c].user = u /\ call[c].pc # "add_state"}

\* C13: a call's first statement updates the emotional state from the utterance,
\* its second appends that record, once, to the user's emotional timeline; both
\* come before any context or summary is read and before the model is asked, so
\* whatever the model answers the timeline of a user is as long as the number
\* of calls made for that user.
C13_State ==
    /\ \A u \in Users : Len(emotional_states[u]) = Cardinality(Recorded(u))
    /\ \A c \in Calls :
          call[c].pc \notin {"idle", "add_state"} =>
              \E i \in 1..Len(emotional_states[call[c].user]) :
                  emotional_states[call[c].user][i] = call[c].state
    /\ (\A c \in Calls : Finished(c)) =>
          \A u \in Users :
              Len(emotional_states[u]) = Cardinality({c \in Calls : call[c].user = u})

C13_Step ==
    /\ \A c \in Calls :
          call[c].pc = "idle" /\ call'[c].pc # "idle" =>
              /\ call'[c].pc = "add_state"
              /\ current_state' = Classify(call'[c].msg, current_state)
              /\ call'[c].state = current_state'
    /\ \A u \in Users :
          emotional_states'[u] # emotional_states[u] =>
              \E c \in Calls :
                  /\ call[c].pc = "add_state" /\ call[c].user = u
                  /\ call'[c].pc = "modifier"
                  /\ emotional_states'[u] = Append(emotional_states[u], call[c].state)
                  /\ call[c].modifier = <<>> /\ call[c].context = <<>>
                  /\ call[c].conv_summary = <<>> /\ call[c].emo_summary = <<>>
                  /\ call[c].response = NoResponse

C13_RecordFirst == []C13_State /\ [][C13_Step]_vars

C13_Witness ==
    \E c, d \in Calls :
        /\ c # d /\ call[c].user = call[d].user
        /\ Finished(c) /\ ModelTimedOut(c)
        /\ Finished(d) /\ ModelFailedOtherwise(d)
        /\ Len(emotional_states[call[c].user]) = 2
        /\ emotional_states[call[c].user][1].emotion
              # emotional_states[call[c].user][2].emotion

\* the message list build_prompt assembles for utterance m of user u when the
\* call runs with no other call in flight, from the given slot, histories,
\* timelines and retrieval index
PromptAlone(u, m, slot, convs, emos, index) ==
    LET st == Classify(m, slot)
    IN  Messages([IdleFrame EXCEPT
            !.user = u, !.msg = m, !.state = st,
            !.modifier = get_emotional_modifier(st),
            !.context = get_conversation_context(convs[u], MaxContext),
            !.emo_summary = get_emotional_summary(Append(emos[u], st)),
            !.conv_summary = get_conversation_summary(convs[u]),
            !.rag_context = IF RagEnabled
                            THEN RagContext(rag_query(index, RagResults))
                            ELSE <<>>])

\* the prompt of such a call on the engine as it was constructed
PromptAtStart(u, m) ==
    PromptAlone(u, m, InitialState,
                [v \in Users |-> IF v = "u1" THEN PriorHistory ELSE <<>>],
                [v \in Users |-> <<>>], <<>>)

\* C14 as claimed: once the calls made for other users have returned, the
\* prompt a call for user u would assemble, and the emotion it would return,
\* are what they would be had those calls not taken place.
C14_NoSharedState ==
    \A u \in Users, m \in Utterances :
        /\ \A c \in Calls : call[c].pc \in {"idle", "finished"}
        /\ \A c \in Calls : call[c].user # u
        => /\ PromptAlone(u, m, current_state, conversations, emotional_states,
                          rag_index) = PromptAtStart(u, m)
           /\ Classify(m, current_state).emotion = Classify(m, InitialState).emotion

\* the dialogue history user u owns when the engine starts
InitialHistory(u) == IF u = "u1" THEN PriorHistory ELSE <<>>

\* the positions in user u's history of the turns of call c with the given role
TurnsAs(c, u, role) == {i \in TurnsOf(c, u) : conversations[u][i].role = role}

\* C15: whatever the interleaving of the calls made for one user, every call
\* that got a model reply and returned left its utterance exactly once and its
\* reply exactly once in that user's history; the turns stored before are all
\* still there, and the history holds nothing else.
C15_NoTurnLostOrDuplicated ==
    \A u \in Users :
        LET h == conversations[u]
            n == Len(InitialHistory(u))
            replied == {c \in Calls : call[c].user = u /\ ModelReplied(c)}
        IN  /\ Len(h) >= n
            /\ SubSeq(h, 1, n) = InitialHistory(u)
            /\ \A i \in (n + 1)..Len(h) : h[i].call \in replied
            /\ \A c \in replied :
                  /\ Cardinality(TurnsAs(c, u, "user")) <= 1
                  /\ Cardinality(TurnsAs(c, u, "assistant")) <= 1
                  /\ \A i \in TurnsAs(c, u, "user") : h[i].content = <<call[c].msg>>
                  /\ \A i \in TurnsAs(c, u, "assistant") : h[i].content = call[c].reply
                  /\ Finished(c) =>
                        /\ Cardinality(TurnsAs(c, u, "user")) = 1
                        /\ Cardinality(TurnsAs(c, u, "assistant")) = 1
            /\ (\A c \in Calls : Finished(c)) => Len(h) = n + 2 * Cardinality(replied)

C15_Witness ==
    \E c, d \in Calls :
        LET u == call[c].user
            h == conversations[u]
            n == Len(InitialHistory(u))
        IN  /\ c # d /\ call[d].user = u
            /\ Finished(c) /\ ModelReplied(c)
            /\ Finished(d) /\ ModelReplied(d)
            /\ call[c].msg = call[d].msg
            /\ Len(h) = n + 4
            /\ h[n + 1].call = c /\ h[n + 2].call = d
            /\ h[n + 3].call = d /\ h[n + 4].call = c

\* C16: the constructor ends with an engine whatever optional part failed: no
\* RAGEngine leaves rag_engine None, no readable system_prompt.txt leaves the
\* persona empty, no WakeWordEngine leaves wake_word_engine None and
\* wake_word_enabled False; the parts that can be set up are set up, and at all
\* times wake_word_enabled implies that wake_word_engine is there.
C16_ConstructionCompletes ==
    /\ engine \in {"new", "constructed"}
    /\ wake_word_enabled => wake_word_engine = "engine"
    /\ engine = "constructed" =>
          /\ rag_engine = env.rag
          /\ base_system_prompt = (IF env.prompt_file THEN <<"PERSONA">> ELSE <<>>)
          /\ ~env.mic => wake_word_engine \in {"none", "unset"} /\ ~wake_word_enabled
          /\ wake_word_engine = "none" => ~env.mic
          /\ wake_word_engine = "engine" => wake_word_enabled

C16_Witness ==
    /\ engine = "constructed"
    /\ env = [rag |-> FALSE, mic |-> FALSE, prompt_file |-> FALSE]
    /\ ~rag_engine /\ base_system_prompt = <<>>
    /\ wake_word_engine = "none" /\ ~wake_word_enabled
    /\ \E p \in WakeCallers : caller[p].result = "skipped"

\* C17 as claimed: in every history each utterance is directly followed by the
\* reply of the same call (or is the last turn, its call about to store the
\* reply), and each reply directly follows the utterance of its call.
C17_WholePairs ==
    \A u \in Users :
        LET h == conversations[u]
        IN  \A i \in 1..Len(h) :
                /\ h[i].role = "user" /\ h[i].call \in Calls =>
                      IF i = Len(h) THEN call[h[i].call].pc = "add_asst"
                      ELSE h[i + 1].role = "assistant" /\ h[i + 1].call = h[i].call
                /\ h[i].role = "assistant" /\ h[i].call \in Calls =>
                      i > 1 /\ h[i - 1].role = "user" /\ h[i - 1].call = h[i].call

\* C18 as claimed: whatever the interleaving of the start_listening and
\* stop_listening calls, at most one listen loop is running.
C18_OneListener == Cardinality(Alive) <= 1

\* text holds the letters of the wake word, in either case, in a row
HoldsWakeWord(text) ==
    \E i \in 0..(Len(text) - 4) :
        /\ text[i + 1] \in {"l", "L"}
        /\ text[i + 2] \in {"i", "I"}
        /\ text[i + 3] \in {"l", "L"}
        /\ text[i + 4] \in {"y", "Y"}

\* C19 as claimed: when a stop_listening call returns, is_listening is False
\* and no listen loop is running, so the callback is not invoked until
\* start_listening is called again; and the callback is only invoked by a
\* running loop for a recognised text that holds the wake word in whatever case.
C19_State ==
    \A t \in Threads :
        thread[t].pc = "callback" =>
            thread[t].text \in RecognisedTexts /\ HoldsWakeWord(thread[t].text)

C19_Step ==
    \A p \in WakeCallers :
        /\ caller[p].pc \in StopPcs
        /\ caller'[p].pc = "idle" /\ caller'[p].result = "stopped"
        => /\ ~is_listening'
           /\ \A t \in Threads : thread'[t].pc \in {"unborn", "created", "dead"}

C19_QuietAfterStop == []C19_State /\ [][C19_Step]_vars
\* C20: with every listener thread scheduled and no start_listening call
\* overlapping it, every stop_listening call returns: once is_listening is
\* False the loop ends its iteration, whatever that iteration met (no audio,
\* unrecognised audio, a request error, the callback and its delay, another
\* exception), finds the flag down and exits, and the join ends.
C20_StopReturns ==
    \A p \in WakeCallers : (caller[p].pc \in StopPcs) ~> (caller[p].pc = "idle")

C20_Witness ==
    \E p \in WakeCallers :
        /\ caller[p].pc = "idle" /\ caller[p].result = "stopped"
        /\ ~is_listening
        /\ listening_thread # 0
        /\ thread[listening_thread].pc = "dead"

\* POST /api/wake_word/enable and /disable: the answer to a call that ended
\* with the given result; an exception becomes HTTP 500
EndpointAnswer(result) == IF result = "RuntimeError" THEN "error" ELSE "success"

\* GET /api/wake_word/status; reading an attribute that was never assigned
\* raises, which becomes HTTP 500
get_wake_word_status ==
    IF wake_word_engine = "unset"
    THEN [status |-> "error", enabled |-> FALSE, is_listening |-> FALSE]
    ELSE [status |-> "ok", enabled |-> wake_word_enabled,
          is_listening |-> IF wake_word_engine = "engine" THEN is_listening
                           ELSE FALSE]

\* caller p's call op ends in this step, answered with success, no other call
\* being in progress
AnswersSuccess(p, op) ==
    /\ caller'[p].pc = "idle" /\ caller'[p].op = op
    /\ caller'[p] # caller[p]
    /\ EndpointAnswer(caller'[p].result) = "success"
    /\ \A q \in WakeCallers \ {p} : caller[q].pc = "idle"

\* C21 as claimed: on an engine whose WakeWordEngine is there or failed to
\* initialise, the status read right after an enable call was answered with
\* success reports is_listening true, and right after a disable call was
\* answered with success it reports is_listening false.
C21_Step ==
    \A p \in WakeCallers :
        wake_word_engine \in {"engine", "none"} =>
            /\ AnswersSuccess(p, "enable") => get_wake_word_status'.is_listening
            /\ AnswersSuccess(p, "disable") => ~get_wake_word_status'.is_listening

C21_EndpointsAgree == [][C21_Step]_vars

====
